---- MODULE Spec2Model ----
(***************************************************************************)
(* A model of apollo-server-cache-directive: the @cache schema directive   *)
(* (CacheDirective) and the ApolloServerConfigWrapper that installs it.    *)
(*                                                                         *)
(* JavaScript values are tuples whose first element is a type tag:         *)
(*   <<"undefined">>  <<"null">>  <<"boolean", "false">>  <<"NaN">>        *)
(*   <<"number", n>>  <<"string", s>>                                      *)
(*   <<"object", props>>  with props a sequence of <<name, value>> pairs   *)
(*   <<"array", elems>>   with elems a sequence of values                  *)
(* A JavaScript string that the code takes apart (a directive argument) is *)
(* a sequence of lexemes: "parent.id,args" is                              *)
(* <<"parent", ".", "id", ",", "args">>, a number is its digits.           *)
(***************************************************************************)
EXTENDS Integers, Sequences, FiniteSets, TLC

(***************************************************************************)
(* Bounds of the model.                                                    *)
(***************************************************************************)
\* concurrent field evaluations
NumCalls == 2
\* the clock of the store runs for MaxTime seconds
MaxTime == 2

(***************************************************************************)
(* JavaScript values.                                                      *)
(***************************************************************************)
Undefined == <<"undefined">>
Null == <<"null">>
False == <<"boolean", "false">>
NaN == <<"NaN">>
Num(n) == <<"number", n>>
Str(s) == <<"string", s>>
Obj(props) == <<"object", props>>
Arr(elems) == <<"array", elems>>

\* The signal of a TypeError raised by a property read of null or undefined.
TypeError == <<"TypeError">>

\* Prop as it would be if reading a property of null or undefined gave
\* undefined
PropOptional(o, name) ==
    IF o = Undefined \/ o = Null THEN Undefined
    ELSE IF o[1] # "object" THEN Undefined
    ELSE LET hits == SelectSeq(o[2], LAMBDA p : p[1] = name)
         IN  IF hits = <<>> THEN Undefined ELSE hits[Len(hits)][2]

\* o[name]: the value of a property of a value (src/src/index.ts:265, 268, 315).
Prop(o, name) ==
    IF o = Undefined \/ o = Null THEN TypeError
    ELSE IF o[1] # "object" THEN Undefined
    ELSE LET hits == SelectSeq(o[2], LAMBDA p : p[1] = name)
         IN  IF hits = <<>> THEN Undefined ELSE hits[Len(hits)][2]

RECURSIVE Ser(_)
RECURSIVE SerProps(_)
RECURSIVE SerElems(_)
\* The JSON tree JSON.stringify writes for a value that is not undefined:
\* NaN becomes null, a property whose value is undefined is dropped, an
\* undefined array element becomes null.
Ser(v) ==
    IF v = NaN THEN Null
    ELSE IF v[1] = "object" THEN Obj(SerProps(v[2]))
    ELSE IF v[1] = "array" THEN Arr(SerElems(v[2]))
    ELSE v

SerProps(props) ==
    IF props = <<>> THEN <<>>
    ELSE IF Head(props)[2] = Undefined THEN SerProps(Tail(props))
    ELSE <<<<Head(props)[1], Ser(Head(props)[2])>>>> \o SerProps(Tail(props))

SerElems(elems) ==
    IF elems = <<>> THEN <<>>
    ELSE <<(IF Head(elems) = Undefined THEN Null ELSE Ser(Head(elems)))>>
         \o SerElems(Tail(elems))

\* JSON.stringify(v): a text <<"json", tree>>, or undefined for undefined.
JSONStringify(v) == IF v = Undefined THEN Undefined ELSE <<"json", Ser(v)>>

\* JSON.parse(text) of a text that JSON.stringify wrote.
JSONParse(text) == text[2]

(***************************************************************************)
(* Strings that the code takes apart: sequences of lexemes.                *)
(***************************************************************************)
RECURSIVE TrimLeft(_)
TrimLeft(s) == IF s # <<>> /\ Head(s) = " " THEN TrimLeft(Tail(s)) ELSE s

RECURSIVE TrimRight(_)
TrimRight(s) ==
    IF s # <<>> /\ s[Len(s)] = " " THEN TrimRight(SubSeq(s, 1, Len(s) - 1)) ELSE s

\* String.prototype.trim
Trim(s) == TrimRight(TrimLeft(s))

RECURSIVE Split(_, _)
\* String.prototype.split(sep): the pieces of s between the separators
Split(s, sep) ==
    IF \A i \in 1..Len(s) : s[i] # sep THEN <<s>>
    ELSE LET i == CHOOSE j \in 1..Len(s) : s[j] = sep /\ \A k \in 1..(j - 1) : s[k] # sep
         IN  <<SubSeq(s, 1, i - 1)>> \o Split(SubSeq(s, i + 1, Len(s)), sep)

\* String.prototype.split(sep, limit): at most limit pieces
SplitLimit(s, sep, limit) ==
    LET all == Split(s, sep)
    IN  IF Len(all) > limit THEN SubSeq(all, 1, limit) ELSE all

Digits == <<"0", "1", "2", "3", "4", "5", "6", "7", "8", "9">>
IsDigit(ch) == \E d \in 1..10 : Digits[d] = ch
DigitValue(ch) == (CHOOSE d \in 1..10 : Digits[d] = ch) - 1

RECURSIVE LeadingDigits(_, _)
\* the value of the digits a string starts with, after acc
LeadingDigits(s, acc) ==
    IF s = <<>> \/ ~IsDigit(Head(s)) THEN acc
    ELSE LeadingDigits(Tail(s), acc * 10 + DigitValue(Head(s)))

\* parseInt(s, 10): leading white space skipped, an optional sign, the digits
\* up to the first other character; NaN when there is no digit.
ParseInt(s) ==
    LET t == TrimLeft(s)
        neg == t # <<>> /\ Head(t) = "-"
        u == IF t # <<>> /\ Head(t) \in {"-", "+"} THEN Tail(t) ELSE t
    IN  IF u = <<>> \/ ~IsDigit(Head(u)) THEN NaN
        ELSE Num(IF neg THEN 0 - LeadingDigits(u, 0) ELSE LeadingDigits(u, 0))

(***************************************************************************)
(* The schema: fields, their @cache directive and its arguments, as the    *)
(* GraphQL AST gives them.  A value node of kind IntValue, FloatValue,     *)
(* StringValue or EnumValue holds its text in .value; a ListValue holds    *)
(* nodes, a BooleanValue a boolean, so their .value is not a string.       *)
(***************************************************************************)
ArgNode(name, kind, value) ==
    [kind |-> "Argument", name |-> name, value |-> [kind |-> kind, value |-> value]]

DirectiveNode(name, arguments) ==
    [kind |-> "Directive", name |-> name, arguments |-> arguments]

\* the result of a filter(...).pop() or .shift() that found nothing
NoNode == [kind |-> "undefined", name |-> "", arguments |-> <<>>]

StringKinds == {"IntValue", "FloatValue", "StringValue", "EnumValue"}

\* getDirectiveArgumentByName: the first argument of that name, its text
\* trimmed when it is a string; otherwise undefined.
getDirectiveArgumentByName(directive, name) ==
    LET found == SelectSeq(directive.arguments,
                           LAMBDA a : a.kind = "Argument" /\ a.name = name)
    IN  IF found # <<>> /\ found[1].value.kind \in StringKinds
        THEN Str(Trim(found[1].value.value))
        ELSE Undefined

\* getNumericDirectiveArgumentByName: def when absent, else parseInt(value, 10)
getNumericDirectiveArgumentByName(directive, name, def) ==
    LET value == getDirectiveArgumentByName(directive, name)
    IN  IF value = Undefined THEN Num(def) ELSE ParseInt(value[2])

\* getStringDirectiveArgumentByName: def when absent, else the string
getStringDirectiveArgumentByName(directive, name, def) ==
    LET value == getDirectiveArgumentByName(directive, name)
    IN  IF value = Undefined THEN def ELSE value[2]

\* getCacheDirective: the last directive named cache of the field's AST node
getCacheDirective(field) ==
    LET found == SelectSeq(field.directives,
                           LAMBDA d : d.kind = "Directive" /\ d.name = "cache")
    IN  IF field.hasAstNode /\ found # <<>> THEN found[Len(found)] ELSE NoNode

\* hasCacheDirective as it would be if every field counted as cached
hasCacheDirectiveAlways(field) == TRUE

hasCacheDirective(field) == getCacheDirective(field) # NoNode

\* isSharedCache as it would be if the type defaulted to SCOPED
isSharedCacheUnlessOmitted(directive) ==
    getStringDirectiveArgumentByName(directive, "type", <<"SCOPED">>) = <<"SHARED">>

isSharedCache(directive) ==
    getStringDirectiveArgumentByName(directive, "type", <<"SHARED">>) = <<"SHARED">>

isScopedCache(directive) ==
    getStringDirectiveArgumentByName(directive, "type", <<"SHARED">>) = <<"SCOPED">>

\* The defaults the resolver passes for the numeric arguments.
DefaultTtl == 900
DefaultPollingTimeout == 900
DefaultPingInterval == 1000

(***************************************************************************)
(* compileCacheKey                                                         *)
(***************************************************************************)
\* the name a piece of a cacheKey token stands for (a piece is one lexeme,
\* or empty)
PieceName(piece) == IF piece = <<>> THEN "" ELSE IF Len(piece) = 1 THEN piece[1] ELSE "?"

\* sources[source]
SourceOf(source, parent, args, vars) ==
    CASE source = <<"parent">> -> parent
      [] source = <<"args">> -> args
      [] source = <<"vars">> -> vars
      [] OTHER -> Undefined

\* TokenValue as it would be if a token without a property and with an
\* unknown source pushed nothing
TokenValueSkipsUnknown(k, parent, args, vars) ==
    LET pieces == SplitLimit(k, ".", 2)
        source == pieces[1]
    IN  IF source \notin {<<"parent">>, <<"args">>, <<"vars">>} THEN <<>>
        ELSE IF Len(pieces) < 2 THEN <<SourceOf(source, parent, args, vars)>>
        ELSE LET v == Prop(SourceOf(source, parent, args, vars), PieceName(pieces[2]))
             IN  IF v = TypeError THEN TypeError ELSE <<v>>

\* TokenValue as it would be if a token with an unknown source pushed
\* undefined
TokenValuePushesUnknown(k, parent, args, vars) ==
    LET pieces == SplitLimit(k, ".", 2)
        source == pieces[1]
    IN  IF Len(pieces) < 2 \/ source \notin {<<"parent">>, <<"args">>, <<"vars">>}
        THEN <<SourceOf(source, parent, args, vars)>>
        ELSE LET v == Prop(SourceOf(source, parent, args, vars), PieceName(pieces[2]))
             IN  IF v = TypeError THEN TypeError ELSE <<v>>

\* What one token pushes on combo: <<>> for nothing, <<v>> for a value, or
\* TypeError.
TokenValue(k, parent, args, vars) ==
    LET pieces == SplitLimit(k, ".", 2)
        source == pieces[1]
    IN  IF Len(pieces) < 2 THEN <<SourceOf(source, parent, args, vars)>>
        ELSE IF source \in {<<"parent">>, <<"args">>, <<"vars">>}
        THEN LET v == Prop(SourceOf(source, parent, args, vars), PieceName(pieces[2]))
             IN  IF v = TypeError THEN TypeError ELSE <<v>>
        ELSE <<>>

RECURSIVE Combo(_, _, _, _)
\* the combo array after the forEach over the tokens, or TypeError
Combo(cacheKeys, parent, args, vars) ==
    IF cacheKeys = <<>> THEN <<>>
    ELSE LET first == TokenValue(Head(cacheKeys), parent, args, vars)
             rest == Combo(Tail(cacheKeys), parent, args, vars)
         IN  IF first = TypeError \/ rest = TypeError THEN TypeError
             ELSE first \o rest

\* the md5 digest, modelled as collision-free: the digest of a text is the text
Md5Hex(text) == text

\* compileCacheKey as it would be if the whole of parent, args and vars
\* entered every key
compileCacheKeyOfAll(directive, parent, args, vars) ==
    <<"ch-", Md5Hex(JSONStringify(Arr(<<parent, args, vars>>)))>>

\* compileCacheKey as it would be if the values were combined without their
\* order
compileCacheKeyUnordered(directive, parent, args, vars) ==
    LET cacheKeys == Split(getStringDirectiveArgumentByName(
                               directive, "cacheKey",
                               <<"parent", ",", "args", ",", "vars">>), ",")
        combo == Combo(cacheKeys, parent, args, vars)
        values == {combo[i] : i \in DOMAIN combo}
        sorted == CHOOSE q \in [DOMAIN combo -> values] :
                    \A v \in values :
                        Cardinality({i \in DOMAIN combo : q[i] = v})
                            = Cardinality({i \in DOMAIN combo : combo[i] = v})
    IN  IF combo = TypeError THEN TypeError
        ELSE <<"ch-", Md5Hex(JSONStringify(Arr(sorted)))>>

\* compileCacheKey: the key <<"ch-", digest>>, or TypeError
compileCacheKey(directive, parent, args, vars) ==
    LET cacheKeys == Split(getStringDirectiveArgumentByName(
                               directive, "cacheKey",
                               <<"parent", ",", "args", ",", "vars">>), ",")
        combo == Combo(cacheKeys, parent, args, vars)
    IN  IF combo = TypeError THEN TypeError
        ELSE <<"ch-", Md5Hex(JSONStringify(Arr(combo)))>>

(***************************************************************************)
(* The state: what ApolloServerConfigWrapper has installed (the static     *)
(* CacheDirective.cache and the configs it returned), the schema and what  *)
(* each field's original resolver returns, the contents of the caches with *)
(* their clock, and the field evaluations (calls of the wrapped            *)
(* field.resolve).                                                         *)
(***************************************************************************)
VARIABLES server, schema, resolvers, store, now, call

vars == <<server, schema, resolvers, store, now, call>>

Calls == 1..NumCalls

\* the first time the clock never reaches
Horizon == MaxTime + 1

FieldNames == {"books", "magazines", "title"}

Field(name, directives) == [name |-> name, hasAstNode |-> TRUE, directives |-> directives]

\* The @cache directives a schema of the model declares on its cached fields.
CacheDirectives ==
    { DirectiveNode("cache", <<>>),
      DirectiveNode("cache", <<ArgNode("type", "EnumValue", <<"SCOPED">>)>>),
      DirectiveNode("cache", <<ArgNode("type", "EnumValue", <<"SHARED">>),
                               ArgNode("ttl", "IntValue", <<"2">>),
                               ArgNode("pollingTimeout", "IntValue", <<"1">>),
                               ArgNode("pingInterval", "IntValue", <<"5", "0", "0">>)>>),
      DirectiveNode("cache", <<ArgNode("ttl", "IntValue", <<"1">>),
                               ArgNode("type", "EnumValue", <<"SCOPED">>),
                               ArgNode("cacheKey", "StringValue",
                                       <<"parent", ".", "id">>)>>),
      DirectiveNode("cache", <<ArgNode("ttl", "StringValue", <<"soon">>),
                               ArgNode("pollingTimeout", "EnumValue", <<"NEVER">>),
                               ArgNode("pingInterval", "StringValue", <<>>)>>) }

\* A schema: books and magazines carry the same @cache directive, title none.
SchemaWith(d) ==
    [f \in FieldNames |->
        IF f = "title" THEN Field(f, <<DirectiveNode("deprecated", <<>>)>>)
        ELSE Field(f, <<DirectiveNode("deprecated", <<>>), d>>)]

\* The inputs of a field evaluation: parent, args, context and info, of which
\* the code reads info.variableValues.
Inputs(parent, args, variableValues) ==
    [parent |-> parent, args |-> args, context |-> Obj(<<>>),
     info |-> [variableValues |-> variableValues]]

TheParent == Obj(<<<<"id", Str("12345")>>>>)
TheArgs == Obj(<<>>)
TheVars == Obj(<<>>)
TheInputs == Inputs(TheParent, TheArgs, TheVars)

\* What an original resolver can return.
ResolverValues ==
    { Undefined, Null, False, Num(0), Str(""), NaN,
      Obj(<<<<"title", Str("Dune")>>>>),
      Obj(<<<<"value", Str("v")>>, <<"title", Str("Dune")>>>>) }

\* The cacheKey arguments the key compiler is examined on: one token, the same
\* token as a list literal, tokens in two orders, and a token whose source is
\* none of parent, args, vars, with a property and without.
KeyArguments ==
    { ArgNode("cacheKey", "StringValue", <<"parent", ".", "id">>),
      ArgNode("cacheKey", "ListValue", <<<<"parent", ".", "id">>>>),
      ArgNode("cacheKey", "StringValue",
              <<"parent", ".", "id", ",", "context", ".", "user">>),
      ArgNode("cacheKey", "StringValue", <<"parent", ".", "id", ",", "context">>),
      ArgNode("cacheKey", "StringValue",
              <<"parent", ".", "id", ",", "args", ".", "type">>),
      ArgNode("cacheKey", "StringValue",
              <<"args", ".", "type", ",", "parent", ".", "id">>),
      ArgNode("cacheKey", "StringValue",
              <<"parent", ".", "note", ",", "args", ".", "type">>),
      ArgNode("cacheKey", "StringValue",
              <<"args", ".", "type", ",", "parent", ".", "note">>) }

KeyDirectives ==
    {DirectiveNode("cache", <<>>)} \cup {DirectiveNode("cache", <<a>>) : a \in KeyArguments}

\* A schema whose two cached fields carry a @cache directive each.
KeySchema(d1, d2) ==
    [f \in FieldNames |->
        IF f = "books" THEN Field(f, <<d1>>)
        ELSE IF f = "magazines" THEN Field(f, <<d2>>)
        ELSE Field(f, <<>>)]

\* The inputs field.resolve is called with when the key compiler is examined;
\* the parent of a root field is undefined.
KeyParent(id) == Obj(<<<<"id", Str(id)>>, <<"note", Null>>>>)
KeyInputs ==
    { Inputs(KeyParent("12345"), Obj(<<>>), Obj(<<>>)),
      Inputs(KeyParent("12345"), Obj(<<<<"type", Str("fiction")>>>>),
             Obj(<<<<"lib", Num(1)>>>>)),
      Inputs(KeyParent("99999"), Obj(<<>>), Obj(<<>>)),
      Inputs(KeyParent("99999"), Obj(<<<<"type", Str("fiction")>>>>), Obj(<<>>)),
      Inputs(Undefined, Obj(<<>>), Obj(<<>>)) }

\* The inputs of the evaluations of a root field (its parent is the root
\* value, undefined or null unless the server sets one) and of a field of
\* a library, and a schema whose cached fields take their keys from the
\* parent.
RootInputs ==
    { Inputs(Undefined, Obj(<<>>), Obj(<<>>)),
      Inputs(Null, Obj(<<>>), Obj(<<>>)),
      Inputs(KeyParent("12345"), Obj(<<>>), Obj(<<>>)) }

RootSchema ==
    KeySchema(DirectiveNode("cache", <<ArgNode("cacheKey", "StringValue",
                                               <<"parent", ".", "id">>)>>),
              DirectiveNode("cache", <<ArgNode("cacheKey", "StringValue",
                                               <<"args", ".", "type", ",",
                                                 "parent", ".", "id">>)>>))

\* A @cache directive that supplies the documented defaults of ttl, type and
\* pingInterval, and a schema with a field that omits all of them (books) and
\* a field that omits none of them (magazines).
ExplicitDefaults ==
    DirectiveNode("cache", <<ArgNode("ttl", "IntValue", <<"9", "0", "0">>),
                             ArgNode("type", "EnumValue", <<"SHARED">>),
                             ArgNode("pingInterval", "IntValue",
                                     <<"1", "0", "0", "0">>)>>)

DefaultsSchema ==
    [f \in FieldNames |->
        IF f = "books" THEN Field(f, <<DirectiveNode("cache", <<>>)>>)
        ELSE IF f = "magazines" THEN Field(f, <<ExplicitDefaults>>)
        ELSE Field(f, <<>>)]

(***************************************************************************)
(* ApolloServerConfigWrapper.  A config is the object passed to it: its    *)
(* typeDefs, cache and schemaDirectives properties, undefined when absent. *)
(* A cache instance is a tuple naming the object; every                    *)
(* new InMemoryLRUCache() is an object of its own.                         *)
(***************************************************************************)
MaxWraps == 2

\* the document gql makes of the declaration of @cache and CacheType
cacheDef == Obj(<<<<"kind", Str("Document")>>>>)

\* the class the wrapper registers
CacheDirective == <<"class", "CacheDirective">>

\* the n-th cache the wrapper creates
InMemoryLRUCache(n) == <<"InMemoryLRUCache", n>>

RedisCache(host) == <<"RedisCache", host>>

Config(typeDefs, cache, schemaDirectives) ==
    [typeDefs |-> typeDefs, cache |-> cache, schemaDirectives |-> schemaDirectives]

\* The configs the wrapper is called with: with and without a cache, with
\* typeDefs absent, a single document or an array, with and without
\* schemaDirectives.
Configs ==
    { Config(Str("type Library"), RedisCache("localhost"), Undefined),
      Config(Arr(<<Str("type Library")>>), Undefined,
             Obj(<<<<"upper", <<"class", "UpperDirective">>>>>>)),
      Config(Undefined, Undefined,
             Obj(<<<<"cache", <<"class", "OtherDirective">>>>>>)) }

\* o.name = v
RECURSIVE SetProps(_, _, _)
SetProps(props, name, v) ==
    IF props = <<>> THEN <<<<name, v>>>>
    ELSE IF Head(props)[1] = name THEN <<<<name, v>>>> \o Tail(props)
    ELSE <<Head(props)>> \o SetProps(Tail(props), name, v)
SetProp(o, name, v) == Obj(SetProps(o[2], name, v))

\* ApolloServerConfigWrapper as it would be if it always created the cache
ApolloServerConfigWrapperOwnCache(config, n) ==
    [typeDefs |-> config.typeDefs, cache |-> InMemoryLRUCache(n),
     schemaDirectives |-> Obj(<<<<"cache", CacheDirective>>>>)]

\* The config the wrapper returns (the object it was given, changed in
\* place) when n - 1 calls went before.
ApolloServerConfigWrapper(config, n) ==
    [typeDefs |->
        IF config.typeDefs # Undefined
        THEN IF config.typeDefs[1] = "array"
             THEN Arr(Append(config.typeDefs[2], cacheDef))
             ELSE Arr(<<config.typeDefs, cacheDef>>)
        ELSE Undefined,
     cache |-> IF config.cache = Undefined THEN InMemoryLRUCache(n) ELSE config.cache,
     schemaDirectives |->
        IF config.schemaDirectives = Undefined
        THEN Obj(<<<<"cache", CacheDirective>>>>)
        ELSE SetProp(config.schemaDirectives, "cache", CacheDirective)]

\* The state of the module after the calls of the wrapper in given: cache is
\* the static CacheDirective.cache, configs the configs returned, given the
\* configs as they were passed.
Installed(given) ==
    LET configs == [k \in DOMAIN given |-> ApolloServerConfigWrapper(given[k], k)]
    IN  [cache |-> IF given = <<>> THEN Undefined ELSE configs[Len(given)].cache,
         configs |-> configs, given |-> given]

\* a server built as the README builds it, without a cache of its own
TheConfig == Config(Str("type Library"), Undefined, Undefined)

\* A field evaluation.  pc is where it waits: idle (not called yet), sleep
\* (in readFromCache's sleep), setProcessing and setCompleted (awaiting that
\* cache.set), resolving (awaiting the original resolver), done, failed.
\* invoked and writes count its resolver invocations and store writes;
\* sawProcessing, hit (the field whose evaluation wrote the entry it was served
\* from) and waited (the seconds spent in sleep, counted up to
\* pollingTimeout) record what it observed.  inputs is what field.resolve was
\* called with, passed what it handed to the original resolver.  config is
\* the wrapper call whose config the evaluated schema was built from, used the
\* cache instance its last store access went to.
IdleCall ==
    [pc |-> "idle", field |-> "", key |-> Undefined, result |-> Undefined,
     error |-> "", invoked |-> 0, writes |-> 0, sleepMs |-> Undefined,
     sawProcessing |-> FALSE, hit |-> "", waited |-> 0,
     inputs |-> Undefined, passed |-> Undefined, config |-> 0, used |-> Undefined]

Init ==
    /\ server = Installed(<<TheConfig>>)
    /\ schema \in {SchemaWith(d) : d \in CacheDirectives}
    /\ resolvers \in {[f \in FieldNames |-> v] : v \in ResolverValues}
    /\ store = {}
    /\ now = 0
    /\ call = [c \in Calls |-> IdleCall]

(***************************************************************************)
(* The store (KeyValueCache): get, set with a ttl in seconds, expiry.      *)
(***************************************************************************)
\* store holds the entries of every cache instance; the code reaches the one
\* CacheDirective.cache refers to at the moment of the access
HasEntry(key) == \E e \in store : e.cache = server.cache /\ e.key = key
Entry(key) == CHOOSE e \in store : e.cache = server.cache /\ e.key = key

\* cache.get(key): the stored string, or undefined
StoreGet(key) == IF HasEntry(key) THEN Entry(key).value ELSE Undefined

\* when an entry written now with this ttl lapses; a ttl that is no positive
\* number, or one that ends after the clock's last second, never lapses here
Expiry(ttl) ==
    IF ttl[1] = "number" /\ ttl[2] > 0 /\ now + ttl[2] < Horizon THEN now + ttl[2]
    ELSE Horizon

\* cache.set(key, value, {ttl}) by an evaluation of field f: the last write wins
StoreSet(key, value, ttl, f) ==
    {e \in store : ~(e.cache = server.cache /\ e.key = key)}
        \cup {[cache |-> server.cache, key |-> key, value |-> value, ttl |-> ttl,
               exp |-> Expiry(ttl), by |-> f]}

\* the processing marker
ProcessingText == JSONStringify(Obj(<<<<"status", Str("processing")>>>>))

(***************************************************************************)
(* One field evaluation: the async function visitFieldDefinition installs  *)
(* as field.resolve.  Each action is the code between two awaits, taken    *)
(* at the moment the awaited store access or resolver call takes effect.   *)
(***************************************************************************)
\* the ttl of the processing marker
MarkerTtl(directive) ==
    getNumericDirectiveArgumentByName(directive, "pollingTimeout", DefaultPollingTimeout)

\* the ttl of the resolved value
ValueTtl(directive) == getNumericDirectiveArgumentByName(directive, "ttl", DefaultTtl)

\* the pause between two polls, in milliseconds
PingInterval(directive) ==
    getNumericDirectiveArgumentByName(directive, "pingInterval", DefaultPingInterval)

\* The field definitions a schema can hold and what getCacheDirective finds
\* on each.
Fields ==
    {SchemaWith(d)[f] : d \in CacheDirectives, f \in FieldNames}
        \cup {KeySchema(d1, d2)[f] : d1 \in KeyDirectives, d2 \in KeyDirectives,
                                      f \in FieldNames}
        \cup {DefaultsSchema[f] : f \in FieldNames}
CacheDirectiveOf == [field \in Fields |-> getCacheDirective(field)]
Directives == {CacheDirectiveOf[field] : field \in Fields}

\* A directive's arguments never change once the schema is built, so what the
\* resolver reads from them on every evaluation is tabulated per directive.
Readings ==
    [directive \in Directives |->
        [isSharedCache |-> isSharedCache(directive),
         isScopedCache |-> isScopedCache(directive),
         pingInterval |-> PingInterval(directive),
         pollingTimeout |-> MarkerTtl(directive),
         ttl |-> ValueTtl(directive)]]

DirectiveOf(c) == CacheDirectiveOf[schema[call[c].field]]

\* What readFromCache makes of the string cache.get returned: <<"sleep", ms>>,
\* TypeError, or <<"result", value>>.
ReadOutcome(directive, cache) ==
    IF cache = Undefined THEN <<"result", Undefined>>
    ELSE LET content == JSONParse(cache)
         IN  IF Readings[directive].isSharedCache
             THEN LET status == Prop(content, "status")
                  IN  IF status = TypeError THEN TypeError
                      ELSE IF status = Str("processing")
                      THEN <<"sleep", Readings[directive].pingInterval>>
                      ELSE IF status = Str("completed")
                      THEN <<"result", Prop(content, "value")>>
                      ELSE <<"result", Undefined>>
             ELSE IF Readings[directive].isScopedCache
             THEN LET value == Prop(content, "value")
                  IN  IF value = TypeError THEN TypeError ELSE <<"result", value>>
             ELSE <<"result", Undefined>>

\* whether the resolver takes what readFromCache returned for a miss
IsMiss(cache) == cache = Undefined

\* AfterRead as it would be if an evaluation that has polled never took a
\* missing entry for a miss: it sleeps again
AfterReadKeepsPolling(rec, directive) ==
    LET out == ReadOutcome(directive, StoreGet(rec.key))
    IN  IF out = TypeError
        THEN [rec EXCEPT !.pc = "failed", !.error = "TypeError"]
        ELSE IF out[1] = "sleep" \/ (IsMiss(out[2]) /\ rec.sawProcessing)
        THEN [rec EXCEPT !.pc = "sleep", !.sawProcessing = TRUE]
        ELSE IF IsMiss(out[2])
        THEN IF Readings[directive].isSharedCache
             THEN [rec EXCEPT !.pc = "setProcessing"]
             ELSE [rec EXCEPT !.pc = "resolving", !.invoked = @ + 1,
                              !.passed = rec.inputs]
        ELSE [rec EXCEPT !.pc = "done", !.result = out[2], !.hit = Entry(rec.key).by]

\* The evaluation rec after cache.get has taken effect and readFromCache and
\* the resolver have run on to their next await: the sleep, the write of the
\* marker, the original resolver (invoked at once under SCOPED), or the return
\* of the cached value.
AfterRead(rec, directive) ==
    LET out == ReadOutcome(directive, StoreGet(rec.key))
    IN  IF out = TypeError
        THEN [rec EXCEPT !.pc = "failed", !.error = "TypeError"]
        ELSE IF out[1] = "sleep"
        THEN [rec EXCEPT !.pc = "sleep", !.sleepMs = out[2], !.sawProcessing = TRUE]
        ELSE IF IsMiss(out[2])
        THEN IF Readings[directive].isSharedCache
             THEN [rec EXCEPT !.pc = "setProcessing"]
             ELSE [rec EXCEPT !.pc = "resolving", !.invoked = @ + 1,
                              !.passed = rec.inputs]
        ELSE [rec EXCEPT !.pc = "done", !.result = out[2], !.hit = Entry(rec.key).by]

\* field.resolve of the schema built from the k-th config is called with the
\* inputs given: without @cache the original resolver is invoked; with it the
\* key is compiled and the store is read
BeginWith(c, f, given, k) ==
    /\ call[c].pc = "idle"
    /\ k \in DOMAIN server.configs
    /\ LET field == schema[f]
           directive == getCacheDirective(field)
           key == compileCacheKey(directive, given.parent, given.args,
                                  given.info.variableValues)
       IN  call' = [call EXCEPT ![c] =
                IF ~hasCacheDirective(field)
                THEN [@ EXCEPT !.pc = "resolving", !.field = f, !.inputs = given,
                               !.config = k, !.invoked = @ + 1, !.passed = given]
                ELSE IF key = TypeError
                THEN [@ EXCEPT !.pc = "failed", !.field = f, !.inputs = given,
                               !.config = k, !.error = "TypeError"]
                ELSE [AfterRead([@ EXCEPT !.field = f, !.inputs = given,
                                          !.config = k, !.key = key],
                                directive)
                        EXCEPT !.used = server.cache]]
    /\ UNCHANGED <<server, schema, resolvers, store, now>>

Begin(c, f) == BeginWith(c, f, TheInputs, 1)

\* the sleep of readFromCache ends and it calls itself: the store is read again
Poll(c) ==
    /\ call[c].pc = "sleep"
    /\ call' = [call EXCEPT ![c] =
            [AfterRead(@, DirectiveOf(c)) EXCEPT !.used = server.cache]]
    /\ UNCHANGED <<server, schema, resolvers, store, now>>

\* SetProcessing as it would be if the marker were written with the ttl of
\* the value
SetProcessingUsesTtl(c) ==
    /\ call[c].pc = "setProcessing"
    /\ store' = StoreSet(call[c].key, ProcessingText,
                         Readings[DirectiveOf(c)].ttl, call[c].field)
    /\ call' = [call EXCEPT ![c] =
            [@ EXCEPT !.pc = "resolving", !.writes = @ + 1, !.invoked = @ + 1,
                      !.passed = call[c].inputs, !.used = server.cache]]
    /\ UNCHANGED <<server, schema, resolvers, now>>

\* the write of the processing marker takes effect; the original resolver is
\* invoked
SetProcessing(c) ==
    /\ call[c].pc = "setProcessing"
    /\ store' = StoreSet(call[c].key, ProcessingText,
                         Readings[DirectiveOf(c)].pollingTimeout, call[c].field)
    /\ call' = [call EXCEPT ![c] =
            [@ EXCEPT !.pc = "resolving", !.writes = @ + 1, !.invoked = @ + 1,
                      !.passed = call[c].inputs, !.used = server.cache]]
    /\ UNCHANGED <<server, schema, resolvers, now>>

\* CacheData as it would be if every type of cache stored the completed shape
CacheDataCompleted(directive, result) ==
    Obj(<<<<"status", Str("completed")>>, <<"value", result>>>>)

\* what the resolver hands to JSON.stringify for the store
CacheData(directive, result) ==
    IF Readings[directive].isSharedCache
    THEN Obj(<<<<"status", Str("completed")>>, <<"value", result>>>>)
    ELSE result

\* the original resolver returns: without @cache that is the result, with it
\* the write of the value is awaited
ResolverReturns(c) ==
    /\ call[c].pc = "resolving"
    /\ call' = [call EXCEPT ![c] =
            IF hasCacheDirective(schema[call[c].field])
            THEN [@ EXCEPT !.pc = "setCompleted", !.result = resolvers[call[c].field]]
            ELSE [@ EXCEPT !.pc = "done", !.result = resolvers[call[c].field]]]
    /\ UNCHANGED <<server, schema, resolvers, store, now>>

\* ResolverThrows as it would be if the failure were caught and the marker
\* removed
ResolverThrowsCleanup(c) ==
    /\ call[c].pc = "resolving"
    /\ call' = [call EXCEPT ![c] = [@ EXCEPT !.pc = "failed", !.error = "ResolverError"]]
    /\ store' = {e \in store : ~(e.cache = server.cache /\ e.key = call[c].key)}
    /\ UNCHANGED <<server, schema, resolvers, now>>

\* ResolverThrows as it would be if the resolver were called again on a failure
ResolverThrowsRetry(c) ==
    /\ call[c].pc = "resolving"
    /\ call' = [call EXCEPT ![c] = [@ EXCEPT !.invoked = @ + 1]]
    /\ call[c].invoked < 2
    /\ UNCHANGED <<server, schema, resolvers, store, now>>

\* the original resolver throws or rejects: nothing catches it
ResolverThrows(c) ==
    /\ call[c].pc = "resolving"
    /\ call' = [call EXCEPT ![c] = [@ EXCEPT !.pc = "failed", !.error = "ResolverError"]]
    /\ UNCHANGED <<server, schema, resolvers, store, now>>

\* the write of the resolved value takes effect; field.resolve returns
SetCompleted(c) ==
    /\ call[c].pc = "setCompleted"
    /\ LET directive == DirectiveOf(c)
       IN  store' = StoreSet(call[c].key,
                             JSONStringify(CacheData(directive, call[c].result)),
                             Readings[directive].ttl, call[c].field)
    /\ call' = [call EXCEPT ![c] =
            [@ EXCEPT !.pc = "done", !.writes = @ + 1, !.used = server.cache]]
    /\ UNCHANGED <<server, schema, resolvers, now>>

\* the seconds of sleep an evaluation is counted, up to its pollingTimeout
WaitCap(c) ==
    LET t == Readings[DirectiveOf(c)].pollingTimeout
    IN  IF t[1] = "number" /\ t[2] < MaxTime THEN t[2] ELSE MaxTime

\* a second passes; the store drops the entries whose ttl has lapsed
Tick ==
    /\ now < MaxTime
    /\ now' = now + 1
    /\ store' = {e \in store : e.exp > now + 1}
    /\ call' = [c \in Calls |->
            IF call[c].pc = "sleep" /\ call[c].waited < WaitCap(c)
            THEN [call[c] EXCEPT !.waited = @ + 1]
            ELSE call[c]]
    /\ UNCHANGED <<server, schema, resolvers>>

Next ==
    \/ \E c \in Calls, f \in FieldNames : Begin(c, f)
    \/ \E c \in Calls : Poll(c)
    \/ \E c \in Calls : SetProcessing(c)
    \/ \E c \in Calls : ResolverReturns(c)
    \/ \E c \in Calls : ResolverThrows(c)
    \/ \E c \in Calls : SetCompleted(c)
    \/ Tick

Spec == Init /\ [][Next]_vars

(***************************************************************************)
(* A store that can fail: cache.get or cache.set rejects.  Nothing in      *)
(* readFromCache or in the resolver catches the rejection of an awaited    *)
(* promise, so it is the rejection of field.resolve.                       *)
(***************************************************************************)
\* field.resolve is called and its first cache.get rejects
BeginGetFails(c, f) ==
    /\ call[c].pc = "idle"
    /\ hasCacheDirective(schema[f])
    /\ LET key == compileCacheKey(getCacheDirective(schema[f]), TheInputs.parent,
                                  TheInputs.args, TheInputs.info.variableValues)
       IN  /\ key # TypeError
           /\ call' = [call EXCEPT ![c] =
                    [@ EXCEPT !.pc = "failed", !.field = f, !.inputs = TheInputs,
                              !.config = 1, !.key = key, !.error = "StoreError",
                              !.used = server.cache]]
    /\ UNCHANGED <<server, schema, resolvers, store, now>>

\* the cache.get after a sleep rejects
PollGetFails(c) ==
    /\ call[c].pc = "sleep"
    /\ call' = [call EXCEPT ![c] = [@ EXCEPT !.pc = "failed", !.error = "StoreError"]]
    /\ UNCHANGED <<server, schema, resolvers, store, now>>

\* the cache.set of the processing marker rejects: the resolver is not invoked
SetProcessingFails(c) ==
    /\ call[c].pc = "setProcessing"
    /\ call' = [call EXCEPT ![c] = [@ EXCEPT !.pc = "failed", !.error = "StoreError"]]
    /\ UNCHANGED <<server, schema, resolvers, store, now>>

\* SetCompletedFails as it would be if the rejection of the final write were
\* caught and the resolved value returned
SetCompletedFailsCaught(c) ==
    /\ call[c].pc = "setCompleted"
    /\ call' = [call EXCEPT ![c] = [@ EXCEPT !.pc = "done", !.error = "StoreError"]]
    /\ UNCHANGED <<server, schema, resolvers, store, now>>

\* the cache.set of the resolved value rejects
SetCompletedFails(c) ==
    /\ call[c].pc = "setCompleted"
    /\ call' = [call EXCEPT ![c] = [@ EXCEPT !.pc = "failed", !.error = "StoreError"]]
    /\ UNCHANGED <<server, schema, resolvers, store, now>>

FaultNext ==
    \/ Next
    \/ \E c \in Calls, f \in FieldNames : BeginGetFails(c, f)
    \/ \E c \in Calls : PollGetFails(c)
    \/ \E c \in Calls : SetProcessingFails(c)
    \/ \E c \in Calls : SetCompletedFails(c)

FaultSpec == Init /\ [][FaultNext]_vars

(***************************************************************************)
(* The key compiler on its own: field.resolve is called on the cached      *)
(* fields of a schema with two @cache directives and with varying inputs,  *)
(* up to the first read of the store.                                      *)
(***************************************************************************)
KeyInit ==
    /\ server = Installed(<<TheConfig>>)
    /\ schema \in {KeySchema(d1, d2) : d1 \in KeyDirectives, d2 \in KeyDirectives}
    /\ resolvers = [f \in FieldNames |-> Obj(<<<<"title", Str("Dune")>>>>)]
    /\ store = {}
    /\ now = 0
    /\ call = [c \in Calls |-> IdleCall]

KeyNext ==
    \E c \in Calls, f \in {"books", "magazines"}, given \in KeyInputs :
        BeginWith(c, f, given, 1)

KeySpec == KeyInit /\ [][KeyNext]_vars

(***************************************************************************)
(* The evaluations of fields that omit arguments of @cache beside those of *)
(* a field that supplies their defaults.                                   *)
(***************************************************************************)
DefaultsInit ==
    /\ server = Installed(<<TheConfig>>)
    /\ schema = DefaultsSchema
    /\ resolvers \in {[f \in FieldNames |-> v] :
                        v \in {Undefined, Num(0), Obj(<<<<"title", Str("Dune")>>>>)}}
    /\ store = {}
    /\ now = 0
    /\ call = [c \in Calls |-> IdleCall]

DefaultsSpec == DefaultsInit /\ [][Next]_vars

(***************************************************************************)
(* The evaluations of the cached fields of a schema whose keys are taken   *)
(* from the parent, on root fields and on fields of a library.             *)
(***************************************************************************)
RootInit ==
    /\ server = Installed(<<TheConfig>>)
    /\ schema = RootSchema
    /\ resolvers = [f \in FieldNames |-> Obj(<<<<"title", Str("Dune")>>>>)]
    /\ store = {}
    /\ now = 0
    /\ call = [c \in Calls |-> IdleCall]

RootNext ==
    \/ \E c \in Calls, f \in {"books", "magazines"}, given \in RootInputs :
            BeginWith(c, f, given, 1)
    \/ \E c \in Calls : Poll(c)
    \/ \E c \in Calls : SetProcessing(c)
    \/ \E c \in Calls : ResolverReturns(c)
    \/ \E c \in Calls : ResolverThrows(c)
    \/ \E c \in Calls : SetCompleted(c)
    \/ Tick

RootSpec == RootInit /\ [][RootNext]_vars

(***************************************************************************)
(* The wrapper called more than once in one process: every call builds a   *)
(* server of its own from the config it returns, and the fields of all of  *)
(* them are evaluated side by side.                                        *)
(***************************************************************************)
\* Wrap as it would be if a later call left the static reference alone
WrapKeepsFirst(config) ==
    /\ Len(server.configs) < MaxWraps
    /\ LET after == Installed(Append(server.given, config))
       IN  server' = [after EXCEPT !.cache = IF server.cache = Undefined
                                             THEN after.cache ELSE server.cache]
    /\ UNCHANGED <<schema, resolvers, store, now, call>>

\* ApolloServerConfigWrapper(config) is called
Wrap(config) ==
    /\ Len(server.configs) < MaxWraps
    /\ server' = Installed(Append(server.given, config))
    /\ UNCHANGED <<schema, resolvers, store, now, call>>

WrapperInit ==
    /\ server = Installed(<<>>)
    /\ schema = SchemaWith(DirectiveNode("cache", <<>>))
    /\ resolvers = [f \in FieldNames |-> Obj(<<<<"title", Str("Dune")>>>>)]
    /\ store = {}
    /\ now = 0
    /\ call = [c \in Calls |-> IdleCall]

WrapperNext ==
    \/ \E config \in Configs : Wrap(config)
    \/ \E c \in Calls, k \in 1..MaxWraps : BeginWith(c, "books", TheInputs, k)
    \/ \E c \in Calls : Poll(c)
    \/ \E c \in Calls : SetProcessing(c)
    \/ \E c \in Calls : ResolverReturns(c)
    \/ \E c \in Calls : SetCompleted(c)

WrapperSpec == WrapperInit /\ [][WrapperNext]_vars

(***************************************************************************)
(* Vocabulary of the properties.                                           *)
(***************************************************************************)
\* evaluation c is of a field that carries @cache, and of which type
Cached(c) == call[c].field # "" /\ hasCacheDirective(schema[call[c].field])
Shared(c) == Cached(c) /\ Readings[DirectiveOf(c)].isSharedCache
Scoped(c) ==
    /\ Cached(c)
    /\ ~Readings[DirectiveOf(c)].isSharedCache
    /\ Readings[DirectiveOf(c)].isScopedCache

\* the store holds a string for the key, and what it parses to
HasText(key) == HasEntry(key) /\ Entry(key).value # Undefined
Content(key) == JSONParse(Entry(key).value)
IsProcessing(key) == HasText(key) /\ Entry(key).value = ProcessingText
IsCompleted(key) ==
    HasText(key) /\ Content(key)[1] = "object"
                 /\ Prop(Content(key), "status") = Str("completed")

\* evaluation c takes a step that reads the store: its first read when
\* field.resolve is called, or a read after a sleep
Reads(c) ==
    /\ call[c].pc \in {"idle", "sleep"}
    /\ now' = now
    /\ call'[c] # call[c]
    /\ call'[c].key # Undefined

(***************************************************************************)
(* C1  SHARED dedup: of two evaluations of the same SHARED field with the  *)
(* same key, started against an empty store, at most one ever invokes the  *)
(* original resolver, and once both have returned exactly one has invoked  *)
(* it and both return the same value.                                      *)
(***************************************************************************)
C1_SharedDedup ==
    \A c1, c2 \in Calls :
        (c1 # c2 /\ Shared(c1) /\ Shared(c2) /\ call[c1].field = call[c2].field
                 /\ call[c1].key = call[c2].key)
        => /\ call[c1].invoked + call[c2].invoked <= 1
           /\ (call[c1].pc = "done" /\ call[c2].pc = "done")
                => (/\ call[c1].invoked + call[c2].invoked = 1
                    /\ call[c1].result = call[c2].result)

(***************************************************************************)
(* C2  SCOPED miss then hit: an evaluation of a SCOPED field whose read    *)
(* finds the entry a first evaluation wrote (its ttl not yet lapsed)       *)
(* returns the stored value and does not invoke the original resolver;     *)
(* and a SCOPED evaluation that has returned after a miss has invoked the  *)
(* resolver once and written once.                                         *)
(***************************************************************************)
C2_ScopedMissThenHit ==
    [][\A c \in Calls :
        /\ (Reads(c) /\ Scoped(c)' /\ HasEntry(call'[c].key))
            => /\ call'[c].pc = "done"
               /\ call'[c].invoked = 0
               /\ call'[c].result = (IF HasText(call'[c].key)
                                      THEN Content(call'[c].key) ELSE Undefined)
        /\ (Scoped(c) /\ call[c].pc = "setCompleted" /\ call'[c].pc = "done")
            => (call'[c].invoked = 1 /\ call'[c].writes = 1)]_vars

(***************************************************************************)
(* C3  SHARED hit: an evaluation of a SHARED field whose read finds a      *)
(* completed entry returns the stored value, does not invoke the original  *)
(* resolver and does not write to the store, whatever value was stored.    *)
(***************************************************************************)
C3_SharedHit ==
    [][\A c \in Calls :
        (Reads(c) /\ Shared(c)' /\ IsCompleted(call'[c].key))
            => /\ call'[c].pc = "done"
               /\ call'[c].result = Prop(Content(call'[c].key), "value")
               /\ call'[c].invoked = call[c].invoked
               /\ call'[c].writes = call[c].writes
               /\ store' = store]_vars

(***************************************************************************)
(* C4  The key identifies one (field, inputs) combination: evaluations of  *)
(* two different cached fields with the same cacheKey, parent, args and    *)
(* variables use different keys, and no evaluation returns a value that    *)
(* an evaluation of another field stored.                                  *)
(***************************************************************************)
C4_KeyPerField ==
    /\ \A c1, c2 \in Calls :
        (Cached(c1) /\ Cached(c2) /\ call[c1].field # call[c2].field
                    /\ call[c1].key # Undefined /\ call[c2].key # Undefined)
            => call[c1].key # call[c2].key
    /\ \A c \in Calls : call[c].hit \in {"", call[c].field}

(***************************************************************************)
(* C5  Resolver failure: when the original resolver throws during a miss,  *)
(* the evaluation fails with that failure, the step changes nothing in the *)
(* store (under SHARED the processing marker stays as written, no          *)
(* completed entry is written), and the failed evaluation never acts       *)
(* again: it has invoked the resolver once and written only the marker.    *)
(***************************************************************************)
C5_ResolverFailure ==
    [][\A c \in Calls :
        /\ (Cached(c) /\ call[c].pc = "resolving" /\ call'[c].pc = "failed")
            => /\ call'[c].error = "ResolverError"
               /\ call'[c].invoked = 1
               /\ call'[c].writes = (IF Shared(c) THEN 1 ELSE 0)
               /\ store' = store
        /\ (Cached(c) /\ call[c].pc = "failed") => call'[c] = call[c]]_vars

\* a SHARED evaluation has failed on its resolver and its marker is in the store
C5_Witness ==
    \E c \in Calls :
        /\ Shared(c) /\ call[c].pc = "failed" /\ call[c].error = "ResolverError"
        /\ IsProcessing(call[c].key)

(***************************************************************************)
(* C6  Side-effect accounting, as claimed: every finished evaluation of a  *)
(* cached field that invoked the original resolver invoked it exactly once *)
(* and wrote to the store at least once, and every evaluation that         *)
(* returned a value read from the cache invoked it zero times.             *)
(***************************************************************************)
C6_SideEffects ==
    \A c \in Calls :
        (Cached(c) /\ call[c].pc \in {"done", "failed"})
            => /\ call[c].invoked >= 1 => (call[c].invoked = 1 /\ call[c].writes >= 1)
               /\ call[c].hit # "" => call[c].invoked = 0

(***************************************************************************)
(* C6 amended: the same, except that an evaluation of a field that is not  *)
(* SHARED whose resolver failed has written nothing.                       *)
(***************************************************************************)
C6_SideEffectsAmended ==
    \A c \in Calls :
        Cached(c)
            => /\ call[c].invoked <= 1
               /\ (call[c].pc \in {"done", "failed"} /\ call[c].invoked = 1)
                    => IF ~Shared(c) /\ call[c].pc = "failed"
                       THEN call[c].writes = 0
                       ELSE call[c].writes >= 1
               /\ call[c].hit # "" => call[c].invoked = 0

\* one evaluation returned after a miss, another was served from the cache
C6_Witness ==
    \E c1, c2 \in Calls :
        /\ Cached(c1) /\ call[c1].pc = "done" /\ call[c1].invoked = 1
        /\ call[c1].writes >= 1
        /\ Cached(c2) /\ call[c2].pc = "done" /\ call[c2].hit # ""

(***************************************************************************)
(* C7  SHARED waiting: a SHARED evaluation whose read finds the processing *)
(* marker neither invokes the resolver nor writes; it sleeps pingInterval  *)
(* milliseconds and reads again.  A read after a sleep that finds a        *)
(* completed entry returns the cached value, and only a read that finds no *)
(* entry lets the evaluation stake a claim.                                *)
(***************************************************************************)
C7_SharedWaiting ==
    [][\A c \in Calls :
        /\ (Reads(c) /\ Shared(c)' /\ IsProcessing(call'[c].key))
            => /\ call'[c].pc = "sleep"
               /\ call'[c].sleepMs = getNumericDirectiveArgumentByName(
                                         DirectiveOf(c)', "pingInterval", 1000)
               /\ call'[c].invoked = call[c].invoked
               /\ call'[c].writes = call[c].writes
               /\ store' = store
        /\ (Reads(c) /\ Shared(c) /\ call[c].pc = "sleep")
            => /\ call'[c].pc \in {"sleep", "done", "setProcessing"}
               /\ call'[c].invoked = call[c].invoked
               /\ IsCompleted(call[c].key)
                    => (/\ call'[c].pc = "done"
                        /\ call'[c].result = Prop(Content(call[c].key), "value"))
               /\ call'[c].pc = "setProcessing" => ~HasEntry(call[c].key)]_vars

(***************************************************************************)
(* C8  Default pollingTimeout: a processing marker written for a field     *)
(* whose @cache omits pollingTimeout has a ttl of 30 seconds.              *)
(***************************************************************************)
C8_DefaultPollingTimeout ==
    \A e \in store :
        (/\ e.value = ProcessingText
         /\ getDirectiveArgumentByName(getCacheDirective(schema[e.by]),
                                       "pollingTimeout") = Undefined)
            => e.ttl = Num(30)

(***************************************************************************)
(* C9  Timeout result of the README: a SHARED evaluation that has spent    *)
(* pollingTimeout seconds waiting for another evaluation's resolver        *)
(* returns null.                                                           *)
(***************************************************************************)
C9_TimeoutReturnsNull ==
    \A c \in Calls :
        (/\ Shared(c) /\ call[c].pc = "done"
         /\ MarkerTtl(DirectiveOf(c))[1] = "number"
         /\ call[c].waited >= MarkerTtl(DirectiveOf(c))[2]
         /\ \E h \in Calls \ {c} : call[h].key = call[c].key /\ call[h].pc = "resolving")
            => call[c].result = Null

(***************************************************************************)
(* The scheduling the runtime and an available store with a running clock  *)
(* guarantee: time passes, a sleep ends and the read after it is answered, *)
(* an awaited cache.set takes effect.  Nothing makes a resolver return.    *)
(***************************************************************************)
FairSpec ==
    /\ Spec
    /\ WF_vars(Tick)
    /\ \A c \in Calls :
        WF_vars(Poll(c)) /\ WF_vars(SetProcessing(c)) /\ WF_vars(SetCompleted(c))

\* evaluation c sleeps on a processing marker that lapses at second e
Abandoned(c, e) ==
    /\ call[c].pc = "sleep"
    /\ IsProcessing(call[c].key)
    /\ Entry(call[c].key).exp = e

\* somebody wrote the key again: the entry is not the marker that lapses at e
Rewritten(c, e) ==
    /\ HasEntry(call[c].key)
    /\ ~(IsProcessing(call[c].key) /\ Entry(call[c].key).exp = e)

\* evaluation c, after polling, has staked a claim of its own and invoked the
\* original resolver
StakedClaim(c) == call[c].sawProcessing /\ call[c].invoked = 1

C11_SharedMissOrdering ==
    [][\A c \in Calls :
        /\ (Reads(c) /\ Shared(c)' /\ ~HasEntry(call'[c].key))
            => /\ call'[c].pc = "setProcessing"
               /\ call'[c].invoked = 0 /\ call'[c].writes = 0
        /\ Shared(c) =>
            /\ call'[c].writes # call[c].writes =>
                \/ /\ call[c].pc = "setProcessing" /\ call'[c].pc = "resolving"
                   /\ call[c].writes = 0 /\ call'[c].writes = 1
                   /\ call[c].invoked = 0 /\ call'[c].invoked = 1
                   /\ Entry(call[c].key)'.value = ProcessingText
                   /\ Entry(call[c].key)'.ttl = getNumericDirectiveArgumentByName(
                            DirectiveOf(c), "pollingTimeout", DefaultPollingTimeout)
                \/ /\ call[c].pc = "setCompleted" /\ call'[c].pc = "done"
                   /\ call[c].writes = 1 /\ call'[c].writes = 2
                   /\ call[c].invoked = 1 /\ call'[c].invoked = 1
                   /\ call[c].result = resolvers[call[c].field]
                   /\ Entry(call[c].key)'.value = JSONStringify(
                            Obj(<<<<"status", Str("completed")>>,
                                  <<"value", call[c].result>>>>))
                   /\ Entry(call[c].key)'.ttl = getNumericDirectiveArgumentByName(
                            DirectiveOf(c), "ttl", DefaultTtl)
            /\ call'[c].invoked # call[c].invoked => call'[c].writes = call[c].writes + 1
            /\ call[c].pc = "setProcessing" => call'[c].pc \in {"setProcessing", "resolving"}
            /\ call[c].pc = "resolving"
                => call'[c].pc \in {"resolving", "setCompleted", "failed"}
            /\ call[c].pc = "setCompleted" => call'[c].pc \in {"setCompleted", "done"}]_vars

\* a SHARED evaluation has gone through the whole miss path, with a marker
\* ttl that differs from the value ttl
C11_Witness ==
    \E c \in Calls :
        /\ Shared(c) /\ call[c].pc = "done" /\ call[c].hit = ""
        /\ call[c].writes = 2 /\ call[c].invoked = 1
        /\ IsCompleted(call[c].key)
        /\ Readings[DirectiveOf(c)].ttl # Readings[DirectiveOf(c)].pollingTimeout

(***************************************************************************)
(* C12  SCOPED has no coordination: a SCOPED evaluation never awaits a     *)
(* marker write, never sleeps and never sees a marker; one whose read      *)
(* finds no entry invokes the resolver at once, whatever other             *)
(* evaluations of the key are doing; and when its resolver has returned    *)
(* it writes the raw result with ttl = ttl as its only write.              *)
(***************************************************************************)
C12_ScopedNoCoordination ==
    [][\A c \in Calls :
        /\ Scoped(c)' =>
            /\ call'[c].pc \notin {"sleep", "setProcessing"}
            /\ ~call'[c].sawProcessing /\ call'[c].sleepMs = Undefined
            /\ call'[c].waited = 0
        /\ (Reads(c) /\ Scoped(c)' /\ ~HasEntry(call'[c].key))
            => /\ call'[c].pc = "resolving" /\ call'[c].invoked = 1
               /\ call'[c].writes = 0 /\ store' = store
        /\ (Scoped(c) /\ call'[c].writes # call[c].writes)
            => /\ call[c].pc = "setCompleted" /\ call'[c].pc = "done"
               /\ call[c].writes = 0 /\ call'[c].writes = 1
               /\ call[c].invoked = 1
               /\ Entry(call[c].key)'.value = JSONStringify(resolvers[call[c].field])
               /\ Entry(call[c].key)'.ttl = getNumericDirectiveArgumentByName(
                        DirectiveOf(c), "ttl", DefaultTtl)
        /\ (Scoped(c) /\ call[c].pc = "resolving")
            => call'[c].pc \in {"resolving", "setCompleted", "failed"}]_vars

\* all the evaluations, SCOPED and of one key, have read before any wrote:
\* every one has invoked the resolver and written the raw result
C12_Witness ==
    /\ \A c \in Calls :
        /\ Scoped(c) /\ call[c].pc = "done" /\ call[c].hit = ""
        /\ call[c].invoked = 1 /\ call[c].writes = 1
        /\ call[c].key = call[1].key
        /\ resolvers[call[c].field][1] = "object"
    /\ HasText(call[1].key) /\ Content(call[1].key) = resolvers[call[1].field]

\* evaluation c is of a field on which getCacheDirective finds no @cache
Unconfigured(c) ==
    call[c].field # "" /\ CacheDirectiveOf[schema[call[c].field]] = NoNode

(***************************************************************************)
(* C13  Unconfigured passthrough: an evaluation of a field without @cache  *)
(* invokes the original resolver exactly once, when field.resolve is       *)
(* called and with the inputs it was called with; it compiles no key,      *)
(* reads and writes nothing in the store, and ends with the resolver's     *)
(* value or with the resolver's failure.                                   *)
(***************************************************************************)
C13_Passthrough ==
    [][\A c \in Calls :
        Unconfigured(c)' =>
            /\ call'[c].invoked = 1 /\ call'[c].passed = call'[c].inputs
            /\ call'[c].key = Undefined /\ call'[c].writes = 0
            /\ call'[c].hit = "" /\ call'[c].sleepMs = Undefined
            /\ call'[c].pc \in {"resolving", "done", "failed"}
            /\ call'[c] # call[c] => store' = store
            /\ call'[c].pc = "done" => call'[c].result = resolvers[call'[c].field]
            /\ call'[c].pc = "failed" => call'[c].error = "ResolverError"]_vars

\* one evaluation of a field without @cache has returned the resolver's
\* value, another has failed with the resolver's failure
C13_Witness ==
    \E c1, c2 \in Calls :
        /\ Unconfigured(c1) /\ call[c1].pc = "done" /\ call[c1].invoked = 1
        /\ call[c1].result # Undefined
        /\ Unconfigured(c2) /\ call[c2].pc = "failed"

\* the store holds a resolved value for the key (not a processing marker),
\* and the value that was resolved
HasResolved(key) == HasText(key) /\ ~IsProcessing(key)
Resolved(c, key) ==
    IF Shared(c) THEN Prop(Content(key), "value") ELSE Content(key)

(***************************************************************************)
(* C14  TTL round-trip: the store honours ttl (it holds no lapsed entry);  *)
(* an evaluation whose read finds a resolved value that has not lapsed     *)
(* returns that value without invoking the resolver and without writing;   *)
(* an evaluation whose read finds no entry, as after the ttl has elapsed,  *)
(* goes the miss path, on which the value is written with ttl = ttl.       *)
(***************************************************************************)
C14_TtlRoundTrip ==
    [][/\ \A e \in store' : e.exp > now'
       /\ \A c \in Calls :
            /\ (Reads(c) /\ Cached(c)' /\ HasResolved(call'[c].key))
                => /\ call'[c].pc = "done"
                   /\ call'[c].result = Resolved(c, call[c].key)'
                   /\ call'[c].invoked = call[c].invoked
                   /\ call'[c].writes = call[c].writes
            /\ (Reads(c) /\ Cached(c)' /\ ~HasEntry(call'[c].key))
                => call'[c].pc \in {"setProcessing", "resolving"}
            /\ (Cached(c) /\ call[c].pc = "setCompleted" /\ call'[c].pc = "done")
                => Entry(call[c].key)'.ttl = Readings[DirectiveOf(c)].ttl]_vars

(***************************************************************************)
(* C15  Store failure: when a cache.get or a cache.set of a cached         *)
(* evaluation rejects, the evaluation fails with that failure in the same  *)
(* step, having invoked no resolver and changed nothing in the store for   *)
(* it, and it never acts again; a rejection of the final write fails an    *)
(* evaluation whose resolver has returned, and no evaluation returns with  *)
(* a store failure.                                                        *)
(***************************************************************************)
C15_StoreFailure ==
    [][\A c \in Calls :
        /\ (call'[c].error = "StoreError" /\ call[c].error # "StoreError")
            => /\ call[c].pc \in {"idle", "sleep", "setProcessing", "setCompleted"}
               /\ call'[c].pc = "failed"
               /\ call'[c].invoked = call[c].invoked
               /\ call'[c].writes = call[c].writes
               /\ call'[c].result = call[c].result
               /\ store' = store
        /\ call[c].error = "StoreError"
            => (call[c].pc = "failed" /\ call'[c] = call[c])]_vars

\* one evaluation failed on the final write after its resolver had returned,
\* another on a read after a sleep
C15_Witness ==
    \E c1, c2 \in Calls :
        /\ call[c1].pc = "failed" /\ call[c1].error = "StoreError"
        /\ call[c1].invoked = 1 /\ call[c1].result # Undefined
        /\ call[c2].pc = "failed" /\ call[c2].error = "StoreError"
        /\ call[c2].sawProcessing /\ call[c2].invoked = 0

(***************************************************************************)
(* Vocabulary of the key properties.                                       *)
(***************************************************************************)
\* evaluation c is of a cached field and has compiled its key
Keyed(c) == Cached(c) /\ call[c].key # Undefined

\* the cacheKey argument node of c's directive; of kind "undefined" when the
\* directive has none
CacheKeyArgument(c) ==
    LET found == SelectSeq(DirectiveOf(c).arguments, LAMBDA a : a.name = "cacheKey")
    IN  IF found = <<>> THEN ArgNode("cacheKey", "undefined", <<>>) ELSE found[1]

\* the tokens compileCacheKey splits a directive's cacheKey into, and the
\* values they extract from the inputs, tabulated per directive and inputs
TokensOf ==
    [directive \in Directives |->
        Split(getStringDirectiveArgumentByName(
                  directive, "cacheKey", <<"parent", ",", "args", ",", "vars">>), ",")]
ExtractedOf ==
    [directive \in Directives |->
        [given \in KeyInputs \cup RootInputs \cup {TheInputs} |->
            Combo(TokensOf[directive], given.parent, given.args,
                  given.info.variableValues)]]

\* the tokens of evaluation c and the values they extract from c's inputs
Tokens(c) == TokensOf[DirectiveOf(c)]
Extracted(c) == ExtractedOf[DirectiveOf(c)][call[c].inputs]

\* t2 holds the tokens of t1 in another order
Reordered(t1, t2) ==
    /\ Len(t1) = Len(t2) /\ t1 # t2
    /\ \A x \in {t1[i] : i \in DOMAIN t1} \cup {t2[i] : i \in DOMAIN t2} :
        Cardinality({i \in DOMAIN t1 : t1[i] = x})
            = Cardinality({i \in DOMAIN t2 : t2[i] = x})

\* a dotted token whose source is none of parent, args, vars
Unrecognized(k) ==
    /\ \E i \in DOMAIN k : k[i] = "."
    /\ SplitLimit(k, ".", 2)[1] \notin {<<"parent">>, <<"args">>, <<"vars">>}

\* a token without a dot that is none of parent, args, vars
BareUnrecognized(k) ==
    /\ \A i \in DOMAIN k : k[i] # "."
    /\ k \notin {<<"parent">>, <<"args">>, <<"vars">>}

(***************************************************************************)
(* C16  Key depends only on the selected values: two evaluations whose     *)
(* tokens extract the same sequence of values have the same key, whatever  *)
(* their fields and the rest of their inputs; with cacheKey "parent.id"    *)
(* two evaluations have the same key exactly when their parent.id is the   *)
(* same.                                                                   *)
(***************************************************************************)
C16_KeyOfSelectedValues ==
    \A c1, c2 \in Calls :
        (Keyed(c1) /\ Keyed(c2)) =>
            /\ (/\ Extracted(c1) # TypeError /\ Extracted(c2) # TypeError
                /\ Extracted(c1) = Extracted(c2))
                    => call[c1].key = call[c2].key
            /\ (Tokens(c1) = <<<<"parent", ".", "id">>>> /\ Tokens(c2) = Tokens(c1))
                => (call[c1].key = call[c2].key
                    <=> Prop(call[c1].inputs.parent, "id")
                            = Prop(call[c2].inputs.parent, "id"))

\* two evaluations with cacheKey "parent.id", the same parent.id and
\* different args and variables have compiled the same key
C16_Witness ==
    \E c1, c2 \in Calls :
        /\ Keyed(c1) /\ Keyed(c2)
        /\ Tokens(c1) = <<<<"parent", ".", "id">>>> /\ Tokens(c2) = Tokens(c1)
        /\ call[c1].inputs.parent = call[c2].inputs.parent
        /\ call[c1].inputs.args # call[c2].inputs.args
        /\ call[c1].inputs.info # call[c2].inputs.info
        /\ call[c1].key = call[c2].key

(***************************************************************************)
(* C17  Order sensitivity, as claimed: two evaluations with the same       *)
(* inputs whose cacheKeys hold the same tokens in different orders and     *)
(* extract different sequences of values have different keys.              *)
(***************************************************************************)
C17_OrderSensitivity ==
    \A c1, c2 \in Calls :
        (/\ Keyed(c1) /\ Keyed(c2)
         /\ call[c1].inputs = call[c2].inputs
         /\ Reordered(Tokens(c1), Tokens(c2))
         /\ Extracted(c1) # Extracted(c2))
            => call[c1].key # call[c2].key

(***************************************************************************)
(* C17 amended: the same for cacheKeys whose extracted sequences differ    *)
(* in what JSON.stringify writes for them (undefined and NaN are written   *)
(* as null); and the key is the digest of the values in token order.       *)
(***************************************************************************)
C17_OrderSensitivityAmended ==
    \A c1, c2 \in Calls :
        /\ Keyed(c1) => call[c1].key = <<"ch-", JSONStringify(Arr(Extracted(c1)))>>
        /\ (/\ Keyed(c1) /\ Keyed(c2)
            /\ call[c1].inputs = call[c2].inputs
            /\ Reordered(Tokens(c1), Tokens(c2))
            /\ SerElems(Extracted(c1)) # SerElems(Extracted(c2)))
                => call[c1].key # call[c2].key

\* two evaluations with the same inputs and the same tokens in two orders
\* have extracted different values and compiled different keys
C17_Witness ==
    \E c1, c2 \in Calls :
        /\ Keyed(c1) /\ Keyed(c2)
        /\ call[c1].inputs = call[c2].inputs
        /\ Reordered(Tokens(c1), Tokens(c2))
        /\ SerElems(Extracted(c1)) # SerElems(Extracted(c2))
        /\ {Extracted(c1)[i] : i \in DOMAIN Extracted(c1)}
                = {Extracted(c2)[i] : i \in DOMAIN Extracted(c2)}
        /\ call[c1].key # call[c2].key

(***************************************************************************)
(* C18  Unrecognized source is ignored: compiling a cacheKey that holds    *)
(* dotted tokens with a source other than parent, args, vars raises no     *)
(* error (none that its other tokens do not raise by themselves), and two  *)
(* evaluations with the same inputs whose cacheKeys are the same once      *)
(* those tokens are removed have the same key.                             *)
(***************************************************************************)
C18_UnrecognizedSourceIgnored ==
    \A c1, c2 \in Calls :
        /\ (Cached(c1) /\ \E i \in DOMAIN Tokens(c1) : Unrecognized(Tokens(c1)[i]))
            => \/ Keyed(c1) /\ call[c1].error = ""
               \/ Combo(SelectSeq(Tokens(c1), LAMBDA k : ~Unrecognized(k)),
                        call[c1].inputs.parent, call[c1].inputs.args,
                        call[c1].inputs.info.variableValues) = TypeError
        /\ (/\ Keyed(c1) /\ Keyed(c2)
            /\ call[c1].inputs = call[c2].inputs
            /\ SelectSeq(Tokens(c1), LAMBDA k : ~Unrecognized(k))
                    = SelectSeq(Tokens(c2), LAMBDA k : ~Unrecognized(k)))
                => call[c1].key = call[c2].key

\* an evaluation whose cacheKey holds an unrecognized token and one whose
\* cacheKey is the same without it have compiled the same key
C18_Witness ==
    \E c1, c2 \in Calls :
        /\ Keyed(c1) /\ Keyed(c2)
        /\ call[c1].inputs = call[c2].inputs
        /\ \E i \in DOMAIN Tokens(c1) : Unrecognized(Tokens(c1)[i])
        /\ Tokens(c2) = SelectSeq(Tokens(c1), LAMBDA k : ~Unrecognized(k))
        /\ call[c1].key = call[c2].key

(***************************************************************************)
(* C19  cacheKey normalization: two evaluations with the same inputs, one  *)
(* with cacheKey given as the single token t and one with cacheKey given   *)
(* as the list [t], have the same key.                                     *)
(***************************************************************************)
C19_CacheKeyNormalization ==
    \A c1, c2 \in Calls :
        (/\ Keyed(c1) /\ Keyed(c2)
         /\ call[c1].inputs = call[c2].inputs
         /\ CacheKeyArgument(c1).value.kind = "StringValue"
         /\ CacheKeyArgument(c2).value.kind = "ListValue"
         /\ CacheKeyArgument(c2).value.value = <<CacheKeyArgument(c1).value.value>>)
            => call[c1].key = call[c2].key

\* the directive declares the argument with the text of an integer
DeclaresInteger(directive, name) ==
    LET found == SelectSeq(directive.arguments, LAMBDA a : a.name = name)
    IN  /\ found # <<>>
        /\ found[1].value.kind \in StringKinds
        /\ found[1].value.value # <<>>
        /\ \A i \in DOMAIN found[1].value.value : IsDigit(found[1].value.value[i])

(***************************************************************************)
(* C20  Fallback to defaults: every ttl handed to the store and every      *)
(* interval handed to sleep is a number, and it is the default the         *)
(* resolver passes for the argument whenever the directive does not        *)
(* declare the argument (ttl, pollingTimeout, pingInterval) with the text  *)
(* of an integer.                                                          *)
(***************************************************************************)
C20_FallbackToDefaults ==
    /\ \A e \in store :
        LET directive == CacheDirectiveOf[schema[e.by]]
        IN  /\ e.ttl[1] = "number"
            /\ (e.value = ProcessingText /\ ~DeclaresInteger(directive, "pollingTimeout"))
                => e.ttl = Num(DefaultPollingTimeout)
            /\ (e.value # ProcessingText /\ ~DeclaresInteger(directive, "ttl"))
                => e.ttl = Num(DefaultTtl)
    /\ \A c \in Calls :
        call[c].sleepMs # Undefined
            => /\ call[c].sleepMs[1] = "number"
               /\ ~DeclaresInteger(DirectiveOf(c), "pingInterval")
                    => call[c].sleepMs = Num(DefaultPingInterval)

\* what a read of evaluation c leaves of it if its field carried the
\* directive
ReadAs(c, directive) ==
    AfterRead([call[c] EXCEPT
                   !.field = call'[c].field, !.inputs = call'[c].inputs,
                   !.key = IF call[c].pc = "idle"
                           THEN compileCacheKey(directive, call'[c].inputs.parent,
                                                call'[c].inputs.args,
                                                call'[c].inputs.info.variableValues)
                           ELSE call[c].key],
              directive)

(***************************************************************************)
(* C21  Defaults of ttl, type and pingInterval: every step of an           *)
(* evaluation of a field whose @cache omits ttl, type or pingInterval is   *)
(* the step the evaluation would take, in the same state, if the field     *)
(* carried @cache(ttl: 900, type: SHARED, pingInterval: 1000): the same    *)
(* outcome of a read (sleep and its interval, resolver invocation,         *)
(* result), the same store after a write (same text, same ttl).            *)
(***************************************************************************)
C21_Defaults ==
    [][\A c \in Calls :
        /\ (Reads(c) /\ Cached(c)') =>
            \A x \in {"pc", "key", "sleepMs", "sawProcessing", "invoked", "writes",
                       "result", "error", "hit", "passed"} :
                call'[c][x] = ReadAs(c, ExplicitDefaults)[x]
        /\ (call[c].pc = "setProcessing" /\ call'[c].pc = "resolving")
            => store' = StoreSet(call[c].key, ProcessingText,
                                 MarkerTtl(ExplicitDefaults), call[c].field)
        /\ (call[c].pc = "setCompleted" /\ call'[c].pc = "done")
            => store' = StoreSet(call[c].key,
                                 JSONStringify(CacheData(ExplicitDefaults,
                                                         call[c].result)),
                                 ValueTtl(ExplicitDefaults), call[c].field)
        /\ call'[c].sleepMs \in {Undefined, Num(1000)}
        /\ \A e \in store' : e.value # ProcessingText => e.ttl = Num(900)]_vars

\* an evaluation of the field that omits every argument slept on the marker
\* of another and was then served the value that one stored
C21_Witness ==
    \E c1, c2 \in Calls :
        /\ call[c1].field = "books" /\ call[c1].pc = "done"
        /\ call[c1].sawProcessing /\ call[c1].sleepMs = Num(1000)
        /\ call[c1].hit = call[c2].field /\ call[c1].invoked = 0
        /\ call[c2].field = "magazines" /\ call[c2].pc = "done" /\ call[c2].writes = 2

\* the config the most recent call of the wrapper returned
Latest == server.configs[Len(server.configs)]

\* a step in which the wrapper is called
Wraps == Len(server'.configs) = Len(server.configs) + 1

\* evaluation c takes a step that reads or writes the store
Accesses(c) ==
    \/ Reads(c)
    \/ /\ call[c].pc \in {"setProcessing", "setCompleted"}
       /\ call'[c].pc # call[c].pc
       /\ call'[c].error = ""

(***************************************************************************)
(* C22  Cache selection by ApolloServerConfigWrapper: a call of the        *)
(* wrapper with a config without a cache leaves a newly created in-memory  *)
(* cache in config.cache, a call with a config that has a cache leaves     *)
(* that instance there; either way it is the instance CacheDirective.cache *)
(* refers to when the wrapper returns, and the one the evaluations of the  *)
(* schema built from that config read, are served from and write to.       *)
(***************************************************************************)
C22_CacheSelection ==
    [][/\ Wraps =>
            LET k == Len(server'.configs)
                given == server'.given[k]
                config == server'.configs[k]
            IN  /\ given.cache = Undefined
                    => /\ config.cache[1] = "InMemoryLRUCache"
                       /\ \A j \in 1..(k - 1) : server'.configs[j].cache # config.cache
                /\ given.cache # Undefined => config.cache = given.cache
                /\ server'.cache = config.cache
       /\ \A c \in Calls :
            (Accesses(c) /\ call'[c].config = Len(server.configs)) =>
                LET mine == server.configs[call'[c].config].cache
                IN  /\ call'[c].used = mine
                    /\ \A e \in store' \ store : e.cache = mine
                    /\ (call'[c].hit # "" /\ call[c].hit = "")
                        => \E e \in store : /\ e.cache = mine
                                            /\ e.key = call'[c].key
                                            /\ e.by = call'[c].hit]_vars

\* the wrapper created a cache for a first config and kept the cache of a
\* second; an evaluation under each wrote its value to the cache of its config
C22_Witness ==
    /\ Len(server.configs) = 2
    /\ server.given[1].cache = Undefined
    /\ server.given[2].cache = RedisCache("localhost")
    /\ \E c1, c2 \in Calls :
        /\ call[c1].config = 1 /\ call[c1].pc = "done" /\ call[c1].writes = 2
        /\ call[c1].used = InMemoryLRUCache(1)
        /\ call[c2].config = 2 /\ call[c2].pc = "done" /\ call[c2].writes = 2
        /\ call[c2].used = RedisCache("localhost")
        /\ \E e \in store : e.cache = RedisCache("localhost") /\ IsCompleted(e.key)

(***************************************************************************)
(* C23  No regression of a completed entry: under SHARED, once the store   *)
(* holds a completed entry for the key of an evaluation, every step that   *)
(* leaves an entry for that key (the ttl has not removed it) leaves a      *)
(* completed one: no step replaces it by a processing marker.              *)
(***************************************************************************)
C23_NoRegression ==
    [][\A c \in Calls :
        (Shared(c) /\ IsCompleted(call[c].key) /\ HasEntry(call[c].key)')
            => IsCompleted(call[c].key)']_vars

(***************************************************************************)
(* C24  Returned values originate from the resolver: in both modes the     *)
(* value an evaluation of a cached field returns is the value an           *)
(* invocation of the original resolver returned (its own on a miss, the    *)
(* one behind the stored result on a hit), never a part of it or another   *)
(* value.                                                                  *)
(***************************************************************************)
C24_ReturnsResolverValue ==
    \A c \in Calls :
        (Cached(c) /\ call[c].pc = "done")
            => \E f \in FieldNames : call[c].result = resolvers[f]

(***************************************************************************)
(* C26  A bare unrecognized token is not ignored: every token without a    *)
(* dot that is none of parent, args, vars adds one element, undefined, to  *)
(* the combined sequence, while a dotted token with such a source adds     *)
(* none; and of two evaluations with the same inputs, one whose cacheKey   *)
(* is that of the other with a bare unrecognized token appended has        *)
(* another key.                                                            *)
(***************************************************************************)
C26_BareUnrecognizedToken ==
    \A c1, c2 \in Calls :
        /\ Keyed(c1) =>
            /\ Len(Extracted(c1))
                    = Len(SelectSeq(Tokens(c1), LAMBDA k : ~Unrecognized(k)))
            /\ \A t \in {<<"context">>, <<"context", ".", "user">>} :
                BareUnrecognized(t) <=>
                    TokenValue(t, call[c1].inputs.parent, call[c1].inputs.args,
                               call[c1].inputs.info.variableValues) = <<Undefined>>
        /\ (/\ Keyed(c1) /\ Keyed(c2)
            /\ call[c1].inputs = call[c2].inputs
            /\ \E t \in {<<"context">>} :
                BareUnrecognized(t) /\ Tokens(c1) = Append(Tokens(c2), t))
                => /\ Extracted(c1) = Append(Extracted(c2), Undefined)
                   /\ call[c1].key # call[c2].key

\* an evaluation with cacheKey "parent.id,context" and one with cacheKey
\* "parent.id", called with the same inputs, have compiled different keys
C26_Witness ==
    \E c1, c2 \in Calls :
        /\ Keyed(c1) /\ Keyed(c2)
        /\ call[c1].inputs = call[c2].inputs
        /\ Tokens(c1) = <<<<"parent", ".", "id">>, <<"context">>>>
        /\ Tokens(c2) = <<<<"parent", ".", "id">>>>
        /\ Len(Extracted(c1)) = 2 /\ Len(Extracted(c2)) = 1
        /\ call[c1].key # call[c2].key

\* a dotted token of parent, args or vars whose source is null or undefined
\* in the inputs given
MissingSource(k, given) ==
    LET pieces == SplitLimit(k, ".", 2)
    IN  /\ Len(pieces) = 2
        /\ pieces[1] \in {<<"parent">>, <<"args">>, <<"vars">>}
        /\ SourceOf(pieces[1], given.parent, given.args, given.info.variableValues)
                \in {Undefined, Null}

(***************************************************************************)
(* C25  A dotted token over a missing source fails before the cache is     *)
(* touched: an evaluation of a cached field whose cacheKey holds a token   *)
(* parent.p, args.p or vars.p while that source is null or undefined has   *)
(* failed with the TypeError of the key compilation; it has no key, has    *)
(* read no cache and been served from none, has written nothing and has    *)
(* not invoked the original resolver.                                      *)
(***************************************************************************)
C25_MissingSourceFails ==
    \A c \in Calls :
        (Cached(c) /\ \E i \in DOMAIN Tokens(c) :
                            MissingSource(Tokens(c)[i], call[c].inputs))
            => /\ call[c].pc = "failed" /\ call[c].error = "TypeError"
               /\ call[c].key = Undefined
               /\ call[c].used = Undefined
               /\ ~call[c].sawProcessing /\ call[c].hit = ""
               /\ call[c].writes = 0
               /\ call[c].invoked = 0 /\ call[c].passed = Undefined
               /\ call[c].result = Undefined

\* an evaluation of a root field has failed on parent.id while an evaluation
\* of the same field under a library has resolved and stored its value
C25_Witness ==
    \E c1, c2 \in Calls :
        /\ call[c1].field = "books" /\ call[c1].inputs.parent = Undefined
        /\ call[c1].pc = "failed" /\ call[c1].error = "TypeError"
        /\ call[c2].field = "books" /\ call[c2].pc = "done"
        /\ call[c2].invoked = 1 /\ call[c2].writes = 2
        /\ HasEntry(call[c2].key)

(***************************************************************************)
(* C27  One process-wide store reference: after any sequence of calls of   *)
(* the wrapper, CacheDirective.cache is the cache of the config the most   *)
(* recent call returned, and every read and write of every evaluation,     *)
(* whichever config its schema was built from, goes to that cache: it is   *)
(* the instance accessed, the only one that gains an entry, and the one a  *)
(* hit is served from.                                                     *)
(***************************************************************************)
C27_OneStoreReference ==
    [][/\ server'.configs # <<>> => server'.cache = Latest'.cache
       /\ \A c \in Calls :
            Accesses(c) =>
                /\ call'[c].config \in DOMAIN server.configs
                /\ call'[c].used = Latest.cache
                /\ \A e \in store' \ store : e.cache = Latest.cache
                /\ \A e \in store \ store' : e.cache = Latest.cache
                /\ (call'[c].hit # "" /\ call[c].hit = "")
                    => \E e \in store : /\ e.cache = Latest.cache
                                        /\ e.key = call'[c].key
                                        /\ e.by = call'[c].hit]_vars

\* an evaluation of the schema of the first config, whose cache the wrapper
\* created, was served from the cache of the second config, where an
\* evaluation of the schema of the second config had stored the value; the
\* cache of the first config holds nothing
C27_Witness ==
    /\ Len(server.configs) = 2
    /\ server.configs[1].cache # server.configs[2].cache
    /\ \E c1, c2 \in Calls :
        /\ call[c1].config = 1 /\ call[c1].pc = "done"
        /\ call[c1].hit # "" /\ call[c1].invoked = 0
        /\ call[c1].used = server.configs[2].cache
        /\ call[c2].config = 2 /\ call[c2].pc = "done" /\ call[c2].writes = 2
    /\ \A e \in store : e.cache # server.configs[1].cache

====
